---- MODULE Spec2Model ----
(***************************************************************************)
(* Payment / installment lifecycle of the backend: the Payment (ledger),   *)
(* User (account) and Service (purchase) documents, the mongoose pre-save  *)
(* hook of Payment and the request handlers that mutate them.              *)
(*                                                                         *)
(* Money is kept in hundredths of a currency unit, so that                 *)
(* price * percentage / 100 is exact.  Time is counted in days.            *)
(***************************************************************************)
EXTENDS Integers, Sequences, FiniteSets, TLC

VARIABLES
  users,          \* the User documents
  enrolledCount,  \* Service.enrolledCount of each service
  payments,       \* the Payment documents, by id
  now,            \* the clock, in days
  last,           \* the answer of the last handler that ran (when observed)
  reqs,           \* the requests in flight, between their read and their write
  run             \* what a run tracks: the ledger ids in use, whether the handlers'
                  \* answers and the obligations' audit stamps are recorded

vars == <<users, enrolledCount, payments, now, last, reqs, run>>

\* ------------------------------------------------------------------ bounds
MaxPayments == 2      \* ledger ids 1..MaxPayments
MaxEnrolled == 2      \* cap on Service.enrolledCount (a counter that only grows)
MaxTicks == 1         \* the clock takes MaxTicks steps of TickDays days
TickDays == 15

\* ------------------------------------------------------- values and inputs
Null == "null"        \* a null / missing string or reference
NoDate == -1          \* an unset Date field
Undefined == -1       \* req.body.installmentNumber not sent
Cents == 100          \* money scale: hundredths

Users == {"u1"}
Admin == "admin"
Stranger == "u9"      \* an authenticated caller who owns nothing
Callers == Users \cup {Admin, Stranger}

Services == {"s0", "s1", "sOff"}
Price(s) == IF s = "s0" THEN 0 ELSE 1000
IsActive(s) == s # "sOff"
\* Service.duration: the number parseInt reads and the unit word it contains
Duration(s) == IF s = "s0" THEN [n |-> 1, unit |-> "month"] ELSE [n |-> 30, unit |-> "days"]

RawRefs == {"t1", " t1", "t2"}
Trim(s) == IF s = " t1" THEN "t1" ELSE s

PaymentIds == 1..MaxPayments
NoPayment == [userId |-> Null]
NoUser == [exists |-> FALSE]

Split(p, d) == [percentage |-> p, dueDays |-> d]
DefaultSplits == <<Split(30, 0), Split(70, 30)>>

\* what a handler answers: the handler, the HTTP status, the message, for the
\* sweep the list it returns, and for createPayment the request it answers
Resp(op, code, msg) == [op |-> op, code |-> code, msg |-> msg, found |-> <<>>, req |-> <<>>]

RECURSIVE SumSeq(_)
SumSeq(s) == IF s = <<>> THEN 0 ELSE Head(s) + SumSeq(Tail(s))

Amounts(insts) == [i \in 1..Len(insts) |-> insts[i].amount]
PaidAmounts(insts) ==
  [i \in 1..Len(insts) |-> IF insts[i].status = "paid" THEN insts[i].amount ELSE 0]

\* the audit fields of an obligation (submittedAt, paidDate, approvedAt,
\* approvedBy, rejectedAt, rejectedBy) are written and never read by any
\* handler; a run records them only when it tracks them
Stamp(t) == IF run.audit THEN t ELSE NoDate
By(actor) == IF run.audit THEN actor ELSE Null

\* ------------------------------------------------------------ Payment model
\* a pre-save hook that keeps the amountPaid and amountDue the handler left
\* on an installment document, instead of recomputing them
PreSaveKeepsAmounts(doc) ==
  LET d1 ==
        IF doc.paymentType = "installment" /\ Len(doc.installments) > 0
        THEN LET totalAmount == SumSeq(Amounts(doc.installments))
                 paidAmount == SumSeq(PaidAmounts(doc.installments))
             IN [doc EXCEPT !.paymentStatus =
                               IF paidAmount = 0 THEN "pending"
                               ELSE IF paidAmount = totalAmount THEN "approved"
                               ELSE "partial"]
        ELSE LET ap == IF doc.paymentStatus = "approved" THEN doc.amount ELSE 0
             IN [doc EXCEPT !.amountPaid = ap, !.amountDue = doc.amount - ap]
  IN IF d1.isServiceCompleted THEN [d1 EXCEPT !.serviceStatus = "completed"] ELSE d1

\* a pre-save hook that sets amountPaid of a full payment and leaves its
\* amountDue as it was
PreSaveStaleDue(doc) ==
  LET d1 ==
        IF doc.paymentType = "installment" /\ Len(doc.installments) > 0
        THEN LET totalAmount == SumSeq(Amounts(doc.installments))
                 paidAmount == SumSeq(PaidAmounts(doc.installments))
             IN [doc EXCEPT !.amountPaid = paidAmount,
                            !.amountDue = totalAmount - paidAmount,
                            !.paymentStatus =
                               IF paidAmount = 0 THEN "pending"
                               ELSE IF paidAmount = totalAmount THEN "approved"
                               ELSE "partial"]
        ELSE LET ap == IF doc.paymentStatus = "approved" THEN doc.amount ELSE 0
             IN [doc EXCEPT !.amountPaid = ap]
  IN IF d1.isServiceCompleted THEN [d1 EXCEPT !.serviceStatus = "completed"] ELSE d1

\* a pre-save hook that derives the amounts and leaves paymentStatus as the
\* handler set it
PreSaveKeepsStatus(doc) ==
  LET d1 ==
        IF doc.paymentType = "installment" /\ Len(doc.installments) > 0
        THEN LET totalAmount == SumSeq(Amounts(doc.installments))
                 paidAmount == SumSeq(PaidAmounts(doc.installments))
             IN [doc EXCEPT !.amountPaid = paidAmount,
                            !.amountDue = totalAmount - paidAmount]
        ELSE LET ap == IF doc.paymentStatus = "approved" THEN doc.amount ELSE 0
             IN [doc EXCEPT !.amountPaid = ap, !.amountDue = doc.amount - ap]
  IN IF d1.isServiceCompleted THEN [d1 EXCEPT !.serviceStatus = "completed"] ELSE d1

\* a pre-save hook without the completion override
PreSaveNoCompletion(doc) ==
  IF doc.paymentType = "installment" /\ Len(doc.installments) > 0
  THEN LET totalAmount == SumSeq(Amounts(doc.installments))
           paidAmount == SumSeq(PaidAmounts(doc.installments))
       IN [doc EXCEPT !.amountPaid = paidAmount,
                      !.amountDue = totalAmount - paidAmount,
                      !.paymentStatus =
                         IF paidAmount = 0 THEN "pending"
                         ELSE IF paidAmount = totalAmount THEN "approved"
                         ELSE "partial"]
  ELSE LET ap == IF doc.paymentStatus = "approved" THEN doc.amount ELSE 0
       IN [doc EXCEPT !.amountPaid = ap, !.amountDue = doc.amount - ap]

\* paymentSchema.pre('save')
PreSave(doc) ==
  LET d1 ==
        IF doc.paymentType = "installment" /\ Len(doc.installments) > 0
        THEN LET totalAmount == SumSeq(Amounts(doc.installments))
                 paidAmount == SumSeq(PaidAmounts(doc.installments))
             IN [doc EXCEPT !.amountPaid = paidAmount,
                            !.amountDue = totalAmount - paidAmount,
                            !.paymentStatus =
                               IF paidAmount = 0 THEN "pending"
                               ELSE IF paidAmount = totalAmount THEN "approved"
                               ELSE "partial"]
        ELSE LET ap == IF doc.paymentStatus = "approved" THEN doc.amount ELSE 0
             IN [doc EXCEPT !.amountPaid = ap, !.amountDue = doc.amount - ap]
  IN IF d1.isServiceCompleted THEN [d1 EXCEPT !.serviceStatus = "completed"] ELSE d1

\* installments.find(inst => inst.installmentNumber === installmentNumber)
FindInstallment(doc, n) ==
  LET hits == {i \in 1..Len(doc.installments) : doc.installments[i].installmentNumber = n}
  IN IF hits = {} THEN 0 ELSE CHOOSE i \in hits : \A j \in hits : i <= j

\* the end date the approval code derives from Service.duration
EndDate(start, s) ==
  LET d == Duration(s)
  IN IF d.unit = "month" THEN start + 30 * d.n
     ELSE IF d.unit = "year" THEN start + 365 * d.n
     ELSE start + d.n

\* ------------------------------------------------- createPayment (documents)
\* a createPayment that shares the price equally among the obligations
BuildEqualShares(price, splits, ref, t) ==
  [i \in 1..Len(splits) |->
     [installmentNumber |-> i,
      amount |-> (price * Cents) \div Len(splits),
      percentage |-> splits[i].percentage,
      dueDate |-> t + splits[i].dueDays,
      status |-> IF i = 1 THEN "submitted" ELSE "pending",
      transactionId |-> IF i = 1 THEN ref ELSE Null,
      submittedAt |-> IF i = 1 THEN Stamp(t) ELSE NoDate,
      paidDate |-> NoDate, approvedAt |-> NoDate, approvedBy |-> Null,
      rejectedAt |-> NoDate, rejectedBy |-> Null]]

\* paymentData.installments = splits.map(...), the first one marked submitted
BuildInstallments(price, splits, ref, t) ==
  [i \in 1..Len(splits) |->
     [installmentNumber |-> i,
      amount |-> (price * Cents * splits[i].percentage) \div 100,
      percentage |-> splits[i].percentage,
      dueDate |-> t + splits[i].dueDays,
      status |-> IF i = 1 THEN "submitted" ELSE "pending",
      transactionId |-> IF i = 1 THEN ref ELSE Null,
      submittedAt |-> IF i = 1 THEN Stamp(t) ELSE NoDate,
      paidDate |-> NoDate, approvedAt |-> NoDate, approvedBy |-> Null,
      rejectedAt |-> NoDate, rejectedBy |-> Null]]

\* user.installmentSettings.splits, or the built-in 30/70 template
SplitsOf(user) == IF Len(user.splits) > 0 THEN user.splits ELSE DefaultSplits

\* the object handed to Payment.create for a service whose price is price
PaymentDataAt(u, s, ref, ptype, user, t, price) ==
  [userId |-> u, serviceId |-> s, transactionId |-> ref,
   amount |-> price * Cents,
   paymentType |-> ptype,
   installments |-> IF ptype = "installment"
                    THEN BuildInstallments(price, SplitsOf(user), ref, t)
                    ELSE <<>>,
   amountPaid |-> 0,
   amountDue |-> price * Cents,
   paymentStatus |-> IF ptype = "full" THEN "pending" ELSE "partial",
   serviceStatus |-> "pending",
   startDate |-> NoDate, endDate |-> NoDate,
   isServiceCompleted |-> FALSE, markedSuspicious |-> FALSE]

\* the object handed to Payment.create
PaymentData(u, s, ref, ptype, user, t) == PaymentDataAt(u, s, ref, ptype, user, t, Price(s))

MsgNotEnabled == "Installment payments are not enabled for your account"
MsgSuspicious == "Your account is marked as suspicious. Cannot use installment payments."
MsgRefUsed == "Transaction ID already used"
MsgRefExists == "Transaction ID already exists"
MsgInactive == "Service is not active"
MsgNoUser == "User not found"
MsgNoPayment == "Payment not found"
MsgNoInstallment == "Installment not found"
MsgInvalidStatus == "Invalid status"
MsgNotAuthorized == "Not authorized"
MsgNotInstallment == "This is not an installment payment"
MsgAlreadyPaid == "Installment already paid"
MsgAlreadyApproved == "Installment already approved by admin"
MsgFirstWaiting == "First installment is waiting for admin approval"
MsgCannotComplete == "Cannot complete service with pending payment"
MsgSplitTotal == "Installment splits must total 100%"
MsgSplitsTotal == "Splits must total 100%"
MsgTwoSplits == "At least two splits are required"
MsgServerError == "Server error"
MsgOK == "ok"

\* the error kinds of the specification, as sets of the handlers' messages
AccountIneligible == {MsgNotEnabled, MsgSuspicious}
DuplicateReference == {MsgRefUsed, MsgRefExists}

RefInUse(pays, ref) == \E q \in PaymentIds : pays[q] # NoPayment /\ pays[q].transactionId = ref

FreeIds(pays) == {q \in PaymentIds : pays[q] = NoPayment}

\* createPayment without the check of user.isSuspicious
CreateChecksNoSuspicion(us, pays, u, s, rawRef, ptype) ==
  IF ~us[u].exists THEN Resp("createPayment", 404, MsgNoUser)
  ELSE IF ~IsActive(s) THEN Resp("createPayment", 400, MsgInactive)
  ELSE IF RefInUse(pays, Trim(rawRef)) THEN Resp("createPayment", 400, MsgRefUsed)
  ELSE IF ptype = "installment" /\ ~us[u].enabled THEN Resp("createPayment", 400, MsgNotEnabled)
  ELSE Resp("createPayment", 201, MsgOK)

\* the checks of createPayment before Payment.create, in the handler's order
CreateChecks(us, pays, u, s, rawRef, ptype) ==
  IF ~us[u].exists THEN Resp("createPayment", 404, MsgNoUser)
  ELSE IF ~IsActive(s) THEN Resp("createPayment", 400, MsgInactive)
  ELSE IF RefInUse(pays, Trim(rawRef)) THEN Resp("createPayment", 400, MsgRefUsed)
  ELSE IF ptype = "installment" /\ ~us[u].enabled THEN Resp("createPayment", 400, MsgNotEnabled)
  ELSE IF ptype = "installment" /\ us[u].isSuspicious THEN Resp("createPayment", 400, MsgSuspicious)
  ELSE Resp("createPayment", 201, MsgOK)

\* a Payment collection without the unique index on transactionId
NoUniqueIndex(pays, ref) == FALSE

\* the unique index on Payment.transactionId: Payment.create fails with the
\* duplicate key error 11000 when a document carries the same transactionId
DuplicateKey(pays, ref) == RefInUse(pays, ref)

\* --------------------------------------------- updatePaymentStatus (document)
ApproveInstallment(payment, i, n, t) ==
  LET inst == payment.installments[i]
      p1 == [payment EXCEPT !.installments[i].status = "paid",
                            !.installments[i].paidDate = Stamp(t),
                            !.installments[i].approvedBy = By(Admin),
                            !.installments[i].approvedAt = Stamp(t)]
      p2 == [p1 EXCEPT !.amountPaid = payment.amountPaid + inst.amount,
                       !.amountDue = payment.amount - (payment.amountPaid + inst.amount)]
      allInstallmentsPaid ==
        \A j \in 1..Len(p2.installments) : p2.installments[j].status = "paid"
      p3 == IF allInstallmentsPaid
            THEN [p2 EXCEPT !.paymentStatus = "approved",
                            !.serviceStatus = "active",
                            !.startDate = t,
                            !.endDate = EndDate(t, payment.serviceId)]
            ELSE [p2 EXCEPT !.paymentStatus = "partial"]
  IN IF n = 1 /\ p3.startDate = NoDate
     THEN [p3 EXCEPT !.startDate = t, !.serviceStatus = "active"]
     ELSE p3

RejectInstallment(payment, i, t) ==
  [payment EXCEPT !.installments[i].status = "rejected",
                  !.installments[i].rejectedAt = Stamp(t),
                  !.installments[i].rejectedBy = By(Admin),
                  !.installments[i].transactionId = Null]

\* the branch for full payments, also taken when no installmentNumber is sent
DecidePayment(payment, status, t) ==
  LET p1 == IF status = "approved" /\ payment.startDate = NoDate
            THEN [payment EXCEPT !.startDate = t,
                                 !.endDate = EndDate(t, payment.serviceId),
                                 !.serviceStatus = "active"]
            ELSE payment
      p2 == IF status = "rejected" THEN [p1 EXCEPT !.serviceStatus = "expired"] ELSE p1
  IN [p2 EXCEPT !.paymentStatus = status]

\* what a handler does with the Payment it loaded: it answers without saving
\* (Fail), or changes the document in memory, calls save() and answers (Save)
Fail(doc, op, code, msg) == [doc |-> doc, save |-> FALSE, resp |-> Resp(op, code, msg)]
Save(doc, op) == [doc |-> doc, save |-> TRUE, resp |-> Resp(op, 200, MsgOK)]

\* the document save() stores when nothing else wrote in between
Stored(out) == IF out.save THEN PreSave(out.doc) ELSE out.doc

\* save() on a document loaded as snap, changed in memory to mem and by the
\* pre-save hook to hooked, when the collection now holds db: the paths
\* modified since the load are $set and the others keep what db holds; the
\* write carries no version check
SaveDelta(db, snap, mem, hooked) ==
  [f \in DOMAIN db |->
     IF f = "installments"
     THEN [i \in DOMAIN db.installments |->
             [g \in DOMAIN db.installments[i] |->
                IF mem.installments[i][g] # snap.installments[i][g]
                   \/ hooked.installments[i][g] # mem.installments[i][g]
                THEN hooked.installments[i][g]
                ELSE db.installments[i][g]]]
     ELSE IF mem[f] # snap[f] \/ hooked[f] # mem[f] THEN hooked[f] ELSE db[f]]

\* updatePaymentStatus on the loaded document
UpdatePaymentStatus(payment, status, n, t) ==
  LET op == "updatePaymentStatus" IN
  IF payment = NoPayment THEN Fail(payment, op, 404, MsgNoPayment)
  ELSE IF status \notin {"approved", "rejected", "pending"}
  THEN Fail(payment, op, 400, MsgInvalidStatus)
  ELSE IF payment.paymentType = "installment" /\ n # Undefined
  THEN LET i == FindInstallment(payment, n) IN
       IF i = 0 THEN Fail(payment, op, 404, MsgNoInstallment)
       ELSE IF status = "approved"
       THEN Save(ApproveInstallment(payment, i, n, t), op)
       ELSE IF status = "rejected"
       THEN Save(RejectInstallment(payment, i, t), op)
       ELSE Save(payment, op)
  ELSE Save(DecidePayment(payment, status, t), op)

\* ------------------------------------------------- payInstallment (document)
\* a submission without the status guards, like the unused schema method
\* submitInstallment
PayInstallmentUnguarded(payment, actor, n, ref, t) ==
  LET op == "payInstallment" IN
  IF payment = NoPayment THEN Fail(payment, op, 404, MsgNoPayment)
  ELSE IF payment.userId # actor THEN Fail(payment, op, 403, MsgNotAuthorized)
  ELSE IF payment.paymentType # "installment" THEN Fail(payment, op, 400, MsgNotInstallment)
  ELSE LET i == FindInstallment(payment, n) IN
       IF i = 0 THEN Fail(payment, op, 404, MsgNoInstallment)
       ELSE Save([payment EXCEPT !.installments[i].status = "submitted",
                                 !.installments[i].submittedAt = Stamp(t),
                                 !.installments[i].transactionId = ref], op)

PayInstallment(payment, actor, n, ref, t) ==
  LET op == "payInstallment" IN
  IF payment = NoPayment THEN Fail(payment, op, 404, MsgNoPayment)
  ELSE IF payment.userId # actor THEN Fail(payment, op, 403, MsgNotAuthorized)
  ELSE IF payment.paymentType # "installment" THEN Fail(payment, op, 400, MsgNotInstallment)
  ELSE LET i == FindInstallment(payment, n) IN
       IF i = 0 THEN Fail(payment, op, 404, MsgNoInstallment)
       ELSE IF payment.installments[i].status = "paid"
       THEN Fail(payment, op, 400, MsgAlreadyPaid)
       ELSE IF payment.installments[i].status = "approved"
       THEN Fail(payment, op, 400, MsgAlreadyApproved)
       ELSE IF n = 1 /\ payment.installments[i].status = "submitted"
       THEN Fail(payment, op, 400, MsgFirstWaiting)
       ELSE Save([payment EXCEPT !.installments[i].status = "submitted",
                                        !.installments[i].submittedAt = Stamp(t),
                                        !.installments[i].transactionId = ref], op)

\* --------------------------------------------- markServiceComplete (document)
\* paymentController.markServiceComplete: PATCH /api/payments/:id/complete
MarkServiceComplete(payment, actor) ==
  LET op == "markServiceComplete" IN
  IF payment = NoPayment THEN Fail(payment, op, 404, MsgNoPayment)
  ELSE IF payment.userId # actor /\ actor # Admin THEN Fail(payment, op, 403, MsgNotAuthorized)
  ELSE IF payment.paymentStatus # "approved" /\ payment.paymentStatus # "partial"
  THEN Fail(payment, op, 400, MsgCannotComplete)
  ELSE Save([payment EXCEPT !.isServiceCompleted = TRUE,
                                   !.serviceStatus = "completed"], op)

\* userController.markServiceComplete: PATCH /api/user/services/:id/complete
UserMarkServiceComplete(payment, actor) ==
  LET op == "userMarkServiceComplete" IN
  IF payment = NoPayment THEN Fail(payment, op, 404, MsgNoPayment)
  ELSE IF payment.userId # actor THEN Fail(payment, op, 403, MsgNotAuthorized)
  ELSE Save([payment EXCEPT !.isServiceCompleted = TRUE,
                                   !.serviceStatus = "completed"], op)

\* ----------------------------------------------- updateServiceDates (document)
\* adminController.updateServiceDates; a date not sent is NoDate
UpdateServiceDates(payment, startDate, endDate, t) ==
  LET op == "updateServiceDates" IN
  IF payment = NoPayment THEN Fail(payment, op, 404, MsgNoPayment)
  ELSE
    LET p1 == IF startDate # NoDate THEN [payment EXCEPT !.startDate = startDate] ELSE payment
        p2 == IF endDate # NoDate THEN [p1 EXCEPT !.endDate = endDate] ELSE p1
        p3 == IF p2.startDate # NoDate /\ p2.endDate # NoDate
              THEN IF t < p2.startDate THEN [p2 EXCEPT !.serviceStatus = "pending"]
                   ELSE IF t >= p2.startDate /\ t <= p2.endDate
                   THEN [p2 EXCEPT !.serviceStatus = "active"]
                   ELSE IF t > p2.endDate THEN [p2 EXCEPT !.serviceStatus = "expired"]
                   ELSE p2
              ELSE p2
    IN Save(p3, op)

\* ------------------------------------------------------------- User handlers
\* a userSchema whose percentage carries no min and no max
SplitsUnbounded(splits) == TRUE

\* userSchema: installmentSettings.splits[].percentage has min 1, max 100
SplitsValid(splits) ==
  \A i \in 1..Len(splits) : splits[i].percentage >= 1 /\ splits[i].percentage <= 100

Percentages(splits) == [i \in 1..Len(splits) |-> splits[i].percentage]

UOut(user, op, code, msg) == [user |-> user, resp |-> Resp(op, code, msg)]

\* a toggleSuspicionStatus that sets the flag and leaves installments enabled
ToggleKeepsEnabled(user, isSuspicious) ==
  IF ~user.exists THEN UOut(user, "toggleSuspicionStatus", 404, MsgNoUser)
  ELSE UOut([user EXCEPT !.isSuspicious = isSuspicious], "toggleSuspicionStatus", 200, MsgOK)

\* adminController.toggleSuspicionStatus
ToggleSuspicionStatus(user, isSuspicious) ==
  LET op == "toggleSuspicionStatus" IN
  IF ~user.exists THEN UOut(user, op, 404, MsgNoUser)
  ELSE LET u1 == [user EXCEPT !.isSuspicious = isSuspicious]
           u2 == IF isSuspicious THEN [u1 EXCEPT !.enabled = FALSE] ELSE u1
       IN UOut(u2, op, 200, MsgOK)

\* paymentSchema.statics.updateUserSuspicion: one findByIdAndUpdate that sets
\* isSuspicious and installmentSettings.enabled = !isSuspicious.  No handler
\* calls it.
UpdateUserSuspicion(user, isSuspicious) ==
  IF ~user.exists THEN user
  ELSE [user EXCEPT !.isSuspicious = isSuspicious, !.enabled = ~isSuspicious]

\* adminController.manageInstallments; enabled is "undefined", "true" or
\* "false"; sent tells whether req.body.splits is there
ManageInstallments(user, enabled, sent, splits) ==
  LET op == "manageInstallments" IN
  IF ~user.exists THEN UOut(user, op, 404, MsgNoUser)
  ELSE LET u1 == IF enabled # "undefined" THEN [user EXCEPT !.enabled = (enabled = "true")]
                 ELSE user
       IN IF sent
          THEN IF SumSeq(Percentages(splits)) # 100 THEN UOut(user, op, 400, MsgSplitTotal)
               ELSE IF ~SplitsValid(splits) THEN UOut(user, op, 500, MsgServerError)
               ELSE UOut([u1 EXCEPT !.splits = splits], op, 200, MsgOK)
          ELSE UOut(u1, op, 200, MsgOK)

\* adminController.setInstallmentSplits; pcts is the array of percentages
SetInstallmentSplits(user, pcts) ==
  LET op == "setInstallmentSplits"
      splitObjects == [i \in 1..Len(pcts) |-> Split(pcts[i], IF i = 1 THEN 0 ELSE (i - 1) * 30)]
  IN IF Len(pcts) < 2 THEN UOut(user, op, 400, MsgTwoSplits)
     ELSE IF SumSeq(pcts) # 100 THEN UOut(user, op, 400, MsgSplitsTotal)
     ELSE IF ~user.exists THEN UOut(user, op, 404, MsgNoUser)
     ELSE IF ~SplitsValid(splitObjects) THEN UOut(user, op, 500, MsgServerError)
     ELSE UOut([user EXCEPT !.splits = splitObjects], op, 200, MsgOK)

\* ------------------------------------------------------------- overdue sweep
\* a query without the condition markedSuspicious: false
SweepMatchIgnoresFlag(payment, t) ==
  /\ payment # NoPayment
  /\ payment.paymentType = "installment"
  /\ \E i \in 1..Len(payment.installments) : payment.installments[i].status = "pending"
  /\ \E i \in 1..Len(payment.installments) : payment.installments[i].dueDate < t

\* the query of checkOverduePayments: each condition on installments.* is
\* satisfied by some element of the array
SweepMatch(payment, t) ==
  /\ payment # NoPayment
  /\ payment.paymentType = "installment"
  /\ \E i \in 1..Len(payment.installments) : payment.installments[i].status = "pending"
  /\ \E i \in 1..Len(payment.installments) : payment.installments[i].dueDate < t
  /\ payment.markedSuspicious = FALSE

\* the loop over the matched ledgers, in id order, from ledger q on.
\* populated is TRUE when the populated user carries isSuspicious
\* (adminController: populate('userId')) and FALSE when only name and email
\* are selected (payment routes: populate('userId', 'name email')), where
\* isSuspicious reads undefined until the loop sets it.  The ledgers of one
\* user share one populated document: seen holds the users the loop has set
\* isSuspicious on.
RECURSIVE SweepFrom(_, _, _, _, _, _)
SweepFrom(q, us, pays, matched, populated, seen) ==
  IF q > MaxPayments THEN [users |-> us, payments |-> pays, found |-> <<>>]
  ELSE IF q \notin matched THEN SweepFrom(q + 1, us, pays, matched, populated, seen)
  ELSE LET u == pays[q].userId IN
       IF u \in DOMAIN us /\ us[u].exists /\ ~(populated /\ us[u].isSuspicious) /\ u \notin seen
       THEN LET us1 == [us EXCEPT ![u].isSuspicious = TRUE, ![u].enabled = FALSE]
                pays1 == [pays EXCEPT ![q] = PreSave([pays[q] EXCEPT !.markedSuspicious = TRUE])]
                rest == SweepFrom(q + 1, us1, pays1, matched, populated, seen \cup {u})
            IN [rest EXCEPT !.found = <<[userId |-> u, paymentId |-> q]>> \o rest.found]
       ELSE SweepFrom(q + 1, us, pays, matched, populated, seen)

\* a sweep that also moves the overdue obligations of the ledgers it flags to
\* the status overdue
CheckOverdueMarksObligations(us, pays, t, populated) ==
  LET r == SweepFrom(1, us, pays, {q \in PaymentIds : SweepMatch(pays[q], t)}, populated, {})
      flagged == {r.found[k].paymentId : k \in DOMAIN r.found}
  IN [r EXCEPT !.payments =
        [q \in PaymentIds |->
           IF q \in flagged
           THEN [r.payments[q] EXCEPT !.installments =
                   [i \in DOMAIN @ |->
                      IF @[i].status = "pending" /\ @[i].dueDate < t
                      THEN [@[i] EXCEPT !.status = "overdue"]
                      ELSE @[i]]]
           ELSE r.payments[q]]]

CheckOverdue(us, pays, t, populated) ==
  SweepFrom(1, us, pays, {q \in PaymentIds : SweepMatch(pays[q], t)}, populated, {})

\* ------------------------------------------------------------------- inputs
PaymentTypes == {"full", "installment"}
Refs == {Trim(r) : r \in RawRefs}
StatusArgs == {"approved", "rejected", "pending", "partial"}
NumberArgs == {Undefined, 1, 2}
DateArgs == {NoDate, 10}
EnabledArgs == {"undefined", "true", "false"}
SplitArgs == {<<Split(100, 0)>>, <<Split(60, 0), Split(60, 30)>>, <<Split(150, 0), Split(-50, 30)>>}
PctArgs == {<<100>>, <<50, 50>>, <<60, 60>>, <<150, -50>>}

\* ------------------------------------------------------------------ actions
InitDocs ==
  /\ users = [u \in Users |-> [exists |-> TRUE, isSuspicious |-> FALSE, enabled |-> FALSE,
                               splits |-> <<>>, enrolledServices |-> {}]]
  /\ enrolledCount = [s \in Services |-> 0]
  /\ payments = [q \in PaymentIds |-> NoPayment]
  /\ now = 0
  /\ last = Resp("init", 0, MsgOK)
  /\ reqs = <<>>

\* the answer of a handler
Answer(r) == last' = IF run.observe THEN r ELSE last

\* Payment.create, then $addToSet on the user and $inc on the service
\* (user is the User document the handler loaded)
StoreNewPayment(q, u, s, ref, ptype, user) ==
  /\ payments' = [payments EXCEPT ![q] = PreSave(PaymentData(u, s, ref, ptype, user, now))]
  /\ users' = IF users[u].exists
              THEN [users EXCEPT ![u].enrolledServices = @ \cup {q}]
              ELSE users
  /\ enrolledCount' = [enrolledCount EXCEPT ![s] = @ + 1]

\* the id Payment.create gives the new document
NewId == CHOOSE q \in FreeIds(payments) \cap run.ids :
           \A x \in FreeIds(payments) \cap run.ids : q <= x

\* the request createPayment answers
CreateReq(u, s, rawRef, ptype) ==
  [userId |-> u, serviceId |-> s, transactionId |-> rawRef, paymentType |-> ptype]

createPayment(u, s, rawRef, ptype) ==
  LET r == CreateChecks(users, payments, u, s, rawRef, ptype) IN
  /\ Answer([r EXCEPT !.req = CreateReq(u, s, rawRef, ptype)])
  /\ IF r.code = 201
     THEN /\ FreeIds(payments) \cap run.ids # {}
          /\ enrolledCount[s] < MaxEnrolled
          /\ StoreNewPayment(NewId, u, s, Trim(rawRef), ptype, users[u])
     ELSE UNCHANGED <<users, enrolledCount, payments>>
  /\ UNCHANGED <<now, reqs, run>>

\* a handler that loads one Payment, changes it and saves it
OnPayment(q, out) ==
  /\ payments' = [payments EXCEPT ![q] = Stored(out)]
  /\ Answer(out.resp)
  /\ UNCHANGED <<users, enrolledCount, now, reqs, run>>

payInstallment(q, actor, n, ref) == OnPayment(q, PayInstallment(payments[q], actor, n, ref, now))

updatePaymentStatus(q, status, n) == OnPayment(q, UpdatePaymentStatus(payments[q], status, n, now))

markServiceComplete(q, actor) == OnPayment(q, MarkServiceComplete(payments[q], actor))

userMarkServiceComplete(q, actor) == OnPayment(q, UserMarkServiceComplete(payments[q], actor))

updateServiceDates(q, startDate, endDate) ==
  OnPayment(q, UpdateServiceDates(payments[q], startDate, endDate, now))

\* a handler that loads one User, changes it and saves it
OnUser(u, out) ==
  /\ users' = [users EXCEPT ![u] = out.user]
  /\ Answer(out.resp)
  /\ UNCHANGED <<enrolledCount, payments, now, reqs, run>>

toggleSuspicionStatus(u, b) == OnUser(u, ToggleSuspicionStatus(users[u], b))

manageInstallments(u, enabled, sent, splits) ==
  OnUser(u, ManageInstallments(users[u], enabled, sent, splits))

setInstallmentSplits(u, pcts) == OnUser(u, SetInstallmentSplits(users[u], pcts))

\* adminController.checkOverduePayments (populated) and the route handler
\* GET /api/payments/admin/check-overdue (not populated)
checkOverduePayments(populated) ==
  LET r == CheckOverdue(users, payments, now, populated) IN
  /\ users' = r.users
  /\ payments' = r.payments
  /\ Answer([Resp(IF populated THEN "checkOverduePayments" ELSE "checkOverdueRoute", 200, MsgOK)
               EXCEPT !.found = r.found])
  /\ UNCHANGED <<enrolledCount, now, reqs, run>>

\* adminController.deleteUser and userController.deleteAccount
deleteUser(u) ==
  /\ IF users[u].exists
     THEN /\ payments' = [q \in PaymentIds |->
                            IF payments[q] # NoPayment /\ payments[q].userId = u
                            THEN NoPayment ELSE payments[q]]
          /\ users' = [users EXCEPT ![u] = NoUser]
          /\ Answer(Resp("deleteUser", 200, MsgOK))
     ELSE /\ UNCHANGED <<payments, users>>
          /\ Answer(Resp("deleteUser", 404, MsgNoUser))
  /\ UNCHANGED <<enrolledCount, now, reqs, run>>

\* adminController.deletePayment and DELETE /api/payments/admin/:id
deletePayment(q) ==
  /\ IF payments[q] # NoPayment
     THEN /\ users' = [u \in Users |->
                         IF u = payments[q].userId /\ users[u].exists
                         THEN [users[u] EXCEPT !.enrolledServices = @ \ {q}]
                         ELSE users[u]]
          /\ payments' = [payments EXCEPT ![q] = NoPayment]
          /\ Answer(Resp("deletePayment", 200, MsgOK))
     ELSE /\ UNCHANGED <<payments, users>>
          /\ Answer(Resp("deletePayment", 404, MsgNoPayment))
  /\ UNCHANGED <<enrolledCount, now, reqs, run>>

\* time passes between requests
Tick ==
  /\ now < MaxTicks * TickDays
  /\ now' = now + TickDays
  /\ UNCHANGED <<users, enrolledCount, payments, last, reqs, run>>

\* ------------------------------------------- Spec: the life of one ledger
\* One account and one ledger, requests served one after the other.
Init ==
  /\ InitDocs
  /\ run = [ids |-> {1}, observe |-> FALSE, audit |-> FALSE]

Next ==
  \/ \E u \in Users, s \in Services, ty \in PaymentTypes : createPayment(u, s, "t1", ty)
  \/ \E q \in run.ids, a \in Callers, n \in NumberArgs \ {Undefined} : payInstallment(q, a, n, "t2")
  \/ \E q \in run.ids, st \in StatusArgs, n \in NumberArgs : updatePaymentStatus(q, st, n)
  \/ \E q \in run.ids, a \in Callers : markServiceComplete(q, a)
  \/ \E q \in run.ids, a \in Callers : userMarkServiceComplete(q, a)
  \/ \E q \in run.ids, sd \in DateArgs, ed \in DateArgs : updateServiceDates(q, sd, ed)
  \/ \E u \in Users, b \in BOOLEAN : toggleSuspicionStatus(u, b)
  \/ \E u \in Users, e \in EnabledArgs, sent \in BOOLEAN :
       \E sp \in (IF sent THEN SplitArgs ELSE {<<>>}) : manageInstallments(u, e, sent, sp)
  \/ \E u \in Users, pc \in PctArgs : setInstallmentSplits(u, pc)
  \/ \E populated \in BOOLEAN : checkOverduePayments(populated)
  \/ Tick

Spec == Init /\ [][Next]_vars

\* ---------------------------------------------------- properties under Spec
Ledgers == {q \in PaymentIds : payments[q] # NoPayment}
InstallmentLedgers == {q \in Ledgers : payments[q].paymentType = "installment"}
FullLedgers == {q \in Ledgers : payments[q].paymentType = "full"}
Obligations(q) == DOMAIN payments[q].installments
PaidObligations(q) == {i \in Obligations(q) : payments[q].installments[i].status = "paid"}

C2_FullConservation ==
  \A q \in FullLedgers : payments[q].amountPaid + payments[q].amountDue = payments[q].amount

\* an approved full-mode ledger of a priced service
C2_Witness ==
  \E q \in FullLedgers :
    /\ payments[q].paymentStatus = "approved"
    /\ payments[q].amount > 0
    /\ payments[q].amountPaid = payments[q].amount

\* the payment status the specification derives from the obligation statuses
StatusOf(insts) ==
  IF \A i \in DOMAIN insts : insts[i].status = "paid" THEN "approved"
  ELSE IF \A i \in DOMAIN insts : insts[i].status # "paid" THEN "pending"
  ELSE "partial"

\* C3: the paymentStatus of an installment ledger is a function of its
\* obligation statuses alone: approved when all are paid, pending when none is,
\* partial otherwise, for every price including 0.
C3_StatusFromObligations ==
  \A q \in InstallmentLedgers :
    payments[q].paymentStatus = StatusOf(payments[q].installments)

\* C4: deciding (approving or rejecting) an obligation that is not submitted
\* fails and leaves the ledger as it was.
C4_DecideNeedsSubmitted ==
  \A q \in InstallmentLedgers : \A i \in Obligations(q) : \A st \in {"approved", "rejected"} :
    payments[q].installments[i].status # "submitted" =>
      LET out == UpdatePaymentStatus(payments[q], st,
                                     payments[q].installments[i].installmentNumber, now)
      IN out.resp.code # 200 /\ Stored(out) = payments[q]

\* C5: an obligation becomes paid only from submitted.
C5_PaidOnlyFromSubmitted ==
  [][\A q \in InstallmentLedgers : \A i \in Obligations(q) :
       (/\ payments'[q] # NoPayment
        /\ payments'[q].installments[i].status = "paid"
        /\ payments[q].installments[i].status # "paid")
       => payments[q].installments[i].status = "submitted"]_vars

\* -------------------------------- SpecCreate: creating and deleting ledgers
\* One account, two ledger ids, requests served one after the other; every
\* handler's answer is recorded in last.
InitCreate ==
  /\ InitDocs
  /\ run = [ids |-> PaymentIds, observe |-> TRUE, audit |-> FALSE]

NextCreate ==
  \/ \E u \in Users, s \in {"s1", "sOff"}, r \in RawRefs, ty \in PaymentTypes :
       createPayment(u, s, r, ty)
  \/ \E u \in Users, b \in BOOLEAN : toggleSuspicionStatus(u, b)
  \/ \E u \in Users, e \in EnabledArgs : manageInstallments(u, e, FALSE, <<>>)
  \/ \E u \in Users : deleteUser(u)
  \/ \E q \in run.ids : deletePayment(q)

SpecCreate == InitCreate /\ [][NextCreate]_vars

\* the account of a createPayment request is there and may not pay in installments
Ineligible(rq) ==
  /\ users[rq.userId].exists
  /\ ~users[rq.userId].enabled \/ users[rq.userId].isSuspicious

\* a step is createPayment answering an installment request of an ineligible account
IneligibleCreate ==
  /\ last'.op = "createPayment"
  /\ last'.req.paymentType = "installment"
  /\ Ineligible(last'.req)

\* every installment ledger a step creates belongs to an account that was
\* enabled and not suspicious when the step was taken
CreatedOnlyWhenEligible ==
  \A q \in PaymentIds :
    (payments[q] = NoPayment /\ payments'[q] # NoPayment
       /\ payments'[q].paymentType = "installment")
    => /\ users[payments'[q].userId].enabled
       /\ ~users[payments'[q].userId].isSuspicious

ReqIds == {"r1", "r2"}
Idle == [pc |-> "idle"]
InFlight == {r \in ReqIds : reqs[r].pc = "read"}
Done == {r \in ReqIds : reqs[r].pc = "done"}

\* what the handler of request rq does with the document it loaded
HandlerOut(rq) ==
  IF rq.op = "updatePaymentStatus"
  THEN UpdatePaymentStatus(rq.snap, rq.status, rq.n, now)
  ELSE PayInstallment(rq.snap, rq.actor, rq.n, rq.ref, now)

\* Payment.findById of request r: it loads ledger q.  first tells that no
\* other request had started, overlapped that another request was in flight
\* on the same ledger between this request's load and its save
Load(r, q, op, status, actor, n, ref) ==
  /\ reqs[r].pc = "idle"
  /\ reqs' = [x \in ReqIds |->
                IF x = r
                THEN [pc |-> "read", op |-> op, q |-> q, status |-> status, actor |-> actor,
                      n |-> n, ref |-> ref, snap |-> payments[q],
                      first |-> \A y \in ReqIds : reqs[y].pc = "idle",
                      overlapped |-> \E y \in InFlight : reqs[y].q = q]
                ELSE IF x \in InFlight /\ reqs[x].q = q
                THEN [reqs[x] EXCEPT !.overlapped = TRUE]
                ELSE reqs[x]]
  /\ UNCHANGED <<users, enrolledCount, payments, now, last, run>>

loadUpdatePaymentStatus(r, q, status, n) ==
  Load(r, q, "updatePaymentStatus", status, Admin, n, Null)

loadPayInstallment(r, q, actor, n, ref) == Load(r, q, "payInstallment", Null, actor, n, ref)

\* the rest of the handler of request r: it changes the document it loaded,
\* saves it and answers; save() of a document that is gone throws
Finish(r) ==
  /\ reqs[r].pc = "read"
  /\ LET rq == reqs[r]
         out == HandlerOut(rq)
         gone == out.save /\ payments[rq.q] = NoPayment
     IN /\ payments' = IF out.save /\ ~gone
                        THEN [payments EXCEPT ![rq.q] =
                                 SaveDelta(payments[rq.q], rq.snap, out.doc, PreSave(out.doc))]
                        ELSE payments
        /\ reqs' = [reqs EXCEPT ![r] =
                      [rq EXCEPT !.pc = "done"] @@
                      [resp |-> IF gone THEN Resp(rq.op, 500, MsgServerError) ELSE out.resp]]
  /\ UNCHANGED <<users, enrolledCount, now, last, run>>

\* --------------------------- SpecConc: two requests race on one ledger
\* An account that may pay in installments creates a ledger; requests are
\* served one after the other until two requests start, and these two
\* interleave their load and their save.
Templates == {<<>>, <<Split(100, 0)>>, <<Split(50, 0), Split(50, 30)>>}

InitConc ==
  /\ users \in {[u \in Users |-> [exists |-> TRUE, isSuspicious |-> FALSE, enabled |-> TRUE,
                                    splits |-> sp, enrolledServices |-> {}]] : sp \in Templates}
  /\ enrolledCount = [s \in Services |-> 0]
  /\ payments = [q \in PaymentIds |-> NoPayment]
  /\ now = 0
  /\ last = Resp("init", 0, MsgOK)
  /\ reqs = [r \in ReqIds |-> Idle]
  /\ run = [ids |-> {1}, observe |-> FALSE, audit |-> TRUE]

Quiet == \A r \in ReqIds : reqs[r].pc = "idle"

NextConc ==
  \/ Quiet /\ \E u \in Users, s \in {"s1", "sOff"}, ty \in PaymentTypes :
                createPayment(u, s, "t1", ty)
  \/ Quiet /\ \E q \in run.ids, n \in NumberArgs \ {Undefined} :
                payInstallment(q, payments[q].userId, n, "t2")
  \/ Quiet /\ \E q \in run.ids, st \in {"approved", "rejected"}, n \in NumberArgs \ {Undefined} :
                updatePaymentStatus(q, st, n)
  \/ \E r \in ReqIds, q \in Ledgers \cap run.ids, st \in {"approved", "rejected"},
        n \in NumberArgs \ {Undefined} : loadUpdatePaymentStatus(r, q, st, n)
  \/ \E r \in ReqIds, q \in Ledgers \cap run.ids, n \in NumberArgs \ {Undefined} :
       loadPayInstallment(r, q, payments[q].userId, n, "t2")
  \/ \E r \in ReqIds : Finish(r)

SpecConc == InitConc /\ [][NextConc]_vars

\* ------------------------------------------------ properties under SpecConc
\* both requests have answered
BothDone == Done = ReqIds

\* the ledger as it was when the first of the two requests loaded it
Base == reqs[CHOOSE r \in ReqIds : reqs[r].first].snap

\* both requests have answered, and both were approvals of the same obligation
\* of the same installment ledger
SameApproval ==
  /\ BothDone
  /\ \A r \in ReqIds : reqs[r].op = "updatePaymentStatus" /\ reqs[r].status = "approved"
  /\ \A r, x \in ReqIds : reqs[r].q = reqs[x].q /\ reqs[r].n = reqs[x].n
  /\ \A r \in ReqIds : /\ reqs[r].snap.paymentType = "installment"
                        /\ FindInstallment(reqs[r].snap, reqs[r].n) # 0

\* both requests loaded the ledger before either saved it
BothOverlapped == \A r \in ReqIds : reqs[r].overlapped

\* the obligation the two approvals are about, in the stored ledger
Approved == LET rq == reqs[CHOOSE r \in ReqIds : TRUE]
            IN payments[rq.q].installments[FindInstallment(payments[rq.q], rq.n)]

\* C6: of two approvals of the same submitted obligation that both load the
\* ledger before either saves it, exactly one succeeds.
C6_OneApprovalSucceeds ==
  (SameApproval /\ BothOverlapped
     /\ Base.installments[FindInstallment(Base, reqs["r1"].n)].status = "submitted")
  => Cardinality({r \in ReqIds : reqs[r].resp.code = 200}) = 1

\* C7: once two approvals of the same obligation have both finished, however
\* their loads and saves interleaved, the obligation is paid and amountPaid is
\* the sum of the amounts of the paid obligations, this one counted once.
C7_AmountCountedOnce ==
  SameApproval =>
    LET d == payments[reqs["r1"].q]
    IN /\ Approved.status = "paid"
       /\ d.amountPaid = SumSeq(PaidAmounts(d.installments))

\* two approvals of one obligation with an amount raced, and both answered 200
C7_Witness ==
  /\ SameApproval
  /\ BothOverlapped
  /\ \A r \in ReqIds : reqs[r].resp.code = 200
  /\ Approved.amount > 0
  /\ payments[reqs["r1"].q].amountPaid >= Approved.amount

\* the ledger that results from serving request a and then request b on doc
Serial(a, b, doc) ==
  Stored(HandlerOut([reqs[b] EXCEPT !.snap = Stored(HandlerOut([reqs[a] EXCEPT !.snap = doc]))]))

\* C8: when two requests on the same ledger have both finished, the ledger is
\* what serving them one after the other, in one of the two orders, gives.
C8_Serializable ==
  BothDone =>
    payments[reqs["r1"].q] \in {Serial("r1", "r2", Base), Serial("r2", "r1", Base)}

\* ------------------------------------ SpecCreateConc: createPayment requests race
\* createPayment awaits its lookups (user, service, Payment.findOne on the
\* transactionId) and later awaits Payment.create; another request may run in
\* between.  The lookups of a request are one step, Payment.create and the
\* two updates that follow it are another.
loadCreatePayment(r, u, s, rawRef, ptype) ==
  /\ reqs[r].pc = "idle"
  /\ LET c == CreateChecks(users, payments, u, s, rawRef, ptype)
         rq == [op |-> "createPayment", req |-> CreateReq(u, s, rawRef, ptype),
                user |-> users[u]]
     IN reqs' = [reqs EXCEPT ![r] =
                   IF c.code = 201 THEN rq @@ [pc |-> "read"]
                   ELSE rq @@ [pc |-> "done", resp |-> c]]
  /\ UNCHANGED <<users, enrolledCount, payments, now, last, run>>

commitCreatePayment(r) ==
  /\ reqs[r].pc = "read"
  /\ reqs[r].op = "createPayment"
  /\ LET rq == reqs[r].req
         ref == Trim(rq.transactionId)
     IN IF DuplicateKey(payments, ref)
        THEN /\ reqs' = [reqs EXCEPT ![r] =
                           [@ EXCEPT !.pc = "done"] @@
                           [resp |-> Resp("createPayment", 400, MsgRefExists)]]
             /\ UNCHANGED <<users, enrolledCount, payments>>
        ELSE /\ FreeIds(payments) \cap run.ids # {}
             /\ enrolledCount[rq.serviceId] < MaxEnrolled
             /\ StoreNewPayment(NewId, rq.userId, rq.serviceId, ref, rq.paymentType,
                                reqs[r].user)
             /\ reqs' = [reqs EXCEPT ![r] =
                           [@ EXCEPT !.pc = "done"] @@
                           [resp |-> Resp("createPayment", 201, MsgOK)]]
  /\ UNCHANGED <<now, last, run>>

\* the answer of request r is sent; the connection serves another request
release(r) ==
  /\ reqs[r].pc = "done"
  /\ reqs' = [reqs EXCEPT ![r] = Idle]
  /\ UNCHANGED <<users, enrolledCount, payments, now, last, run>>

InitCreateConc ==
  /\ users = [u \in Users |-> [exists |-> TRUE, isSuspicious |-> FALSE, enabled |-> TRUE,
                               splits |-> <<>>, enrolledServices |-> {}]]
  /\ enrolledCount = [s \in Services |-> 0]
  /\ payments = [q \in PaymentIds |-> NoPayment]
  /\ now = 0
  /\ last = Resp("init", 0, MsgOK)
  /\ reqs = [r \in ReqIds |-> Idle]
  /\ run = [ids |-> PaymentIds, observe |-> FALSE, audit |-> FALSE]

NextCreateConc ==
  \/ \E r \in ReqIds, u \in Users, s \in {"s1", "sOff"}, ref \in RawRefs, ty \in PaymentTypes :
       loadCreatePayment(r, u, s, ref, ty)
  \/ \E r \in ReqIds : commitCreatePayment(r)
  \/ \E r \in ReqIds : release(r)
  \/ \E q \in run.ids : deletePayment(q)

SpecCreateConc == InitCreateConc /\ [][NextCreateConc]_vars

\* no two ledgers carry the same transactionId
UniqueRefs ==
  \A q1, q2 \in Ledgers : q1 # q2 => payments[q1].transactionId # payments[q2].transactionId

\* request r answers in this step, and its reference is carried by a ledger
AnswersUsedRef(r) ==
  /\ reqs[r].pc # "done"
  /\ reqs'[r].pc = "done"
  /\ RefInUse(payments, Trim(reqs'[r].req.transactionId))

\* C10: no two ledgers ever carry the same reference, also when createPayment
\* requests interleave; a createPayment whose reference a ledger carries fails
\* and changes neither the ledgers, nor the enrolled list, nor the enrolment
\* count, and its error is DuplicateReference whenever the account exists and
\* the service is active (both are checked before the reference).
C10_UniqueReference ==
  [][/\ UniqueRefs'
     /\ \A r \in ReqIds :
          AnswersUsedRef(r) =>
            /\ reqs'[r].resp.code # 201
            /\ UNCHANGED <<users, payments, enrolledCount>>
            /\ (users[reqs'[r].req.userId].exists /\ IsActive(reqs'[r].req.serviceId))
                => reqs'[r].resp.msg \in DuplicateReference]_vars

\* a request that found its reference free lost the race to another request
\* with the same reference and was refused by the unique index
C10_Witness ==
  \E r \in Done :
    /\ reqs[r].resp.msg = MsgRefExists
    /\ RefInUse(payments, Trim(reqs[r].req.transactionId))
    /\ Cardinality(Ledgers) = 1

\* C10 as the specification words it: such a createPayment always fails with
\* DuplicateReference.
C10_AlwaysDuplicateReference ==
  [][/\ UniqueRefs'
     /\ \A r \in ReqIds :
          AnswersUsedRef(r) =>
            /\ reqs'[r].resp.code # 201
            /\ UNCHANGED <<users, payments, enrolledCount>>
            /\ reqs'[r].resp.msg \in DuplicateReference]_vars

\* ----------------------------------- SpecSweep: accounts, ledgers and sweeps
\* One account with up to two installment ledgers; the administrator sets the
\* account's flags and template and approves obligations, time passes, and
\* either sweep runs.  Requests are served one after the other and every
\* answer is recorded in last.
\* a template whose second obligation falls due before the clock's first step
ShortTemplate == <<Split(50, 0), Split(50, TickDays - 5)>>

InitSweep ==
  /\ InitDocs
  /\ run = [ids |-> PaymentIds, observe |-> TRUE, audit |-> FALSE]

NextSweep ==
  \/ \E u \in Users, r \in Refs : createPayment(u, "s1", r, "installment")
  \/ \E u \in Users, e \in EnabledArgs, sent \in BOOLEAN :
       manageInstallments(u, e, sent, ShortTemplate)
  \/ \E u \in Users, b \in BOOLEAN : toggleSuspicionStatus(u, b)
  \/ \E q \in run.ids, n \in NumberArgs \ {Undefined} : updatePaymentStatus(q, "approved", n)
  \/ \E populated \in BOOLEAN : checkOverduePayments(populated)
  \/ Tick

SpecSweep == InitSweep /\ [][NextSweep]_vars

\* ----------------------------------------------- properties under SpecSweep
\* account u exists before and after the step, which makes it suspicious
BecomesSuspicious(u) ==
  /\ users[u].exists /\ users'[u].exists
  /\ ~users[u].isSuspicious
  /\ users'[u].isSuspicious

\* with the documents us and pays, installments are disabled for account u and
\* no createPayment of an installment ledger succeeds for it
NoInstallmentPlan(us, pays, u) ==
  /\ ~us[u].enabled
  /\ \A s \in Services, r \in RawRefs :
       CreateChecks(us, pays, u, s, r, "installment").code # 201

\* C11: every step that makes an account suspicious (the administrator's
\* toggle, either sweep) leaves it with installments disabled, so that no
\* installment ledger can be created for it; and toggleSuspicionStatus(true)
\* does so whatever enabled was, also on an account that is already suspicious.
C11_SuspicionDisables ==
  [][/\ \A u \in Users : BecomesSuspicious(u) => NoInstallmentPlan(users', payments', u)
     /\ \A u \in Users :
          users[u].exists =>
            NoInstallmentPlan([users EXCEPT ![u] = ToggleSuspicionStatus(users[u], TRUE).user],
                              payments, u)]_vars

\* the administrator has just marked suspicious an account that holds a
\* ledger; its installments are disabled
C11_Witness ==
  /\ last.op = "toggleSuspicionStatus"
  /\ last.code = 200
  /\ \E u \in Users : /\ users[u].exists
                       /\ users[u].isSuspicious
                       /\ ~users[u].enabled
                       /\ users[u].enrolledServices # {}

\* the step is a run of one of the two sweeps
SweepRuns == last'.op \in {"checkOverduePayments", "checkOverdueRoute"}

\* the accounts in the result set of the sweep that has just run
Reported(r) == {r.found[k].userId : k \in DOMAIN r.found}

\* an obligation is overdue at time t: no decision on it yet and due before t
Overdue(inst, t) == inst.status \in {"pending", "submitted"} /\ inst.dueDate < t

\* ledger doc is one the sweep has to act on at time t, given the accounts us:
\* installment mode, not flagged, an overdue obligation, owner not suspicious
ToSweep(doc, us, t) ==
  /\ doc # NoPayment
  /\ doc.paymentType = "installment"
  /\ ~doc.markedSuspicious
  /\ \E i \in DOMAIN doc.installments : Overdue(doc.installments[i], t)
  /\ us[doc.userId].exists
  /\ ~us[doc.userId].isSuspicious

\* C12: one run of a sweep marks the owner of every ledger it has to act on
\* (suspicious, installments disabled), flags that ledger and reports the
\* owner; after the run no ledger is left to act on.
C12_SweepMarksAll ==
  [][SweepRuns =>
       /\ \A q \in PaymentIds :
            ToSweep(payments[q], users, now) =>
              /\ users'[payments[q].userId].isSuspicious
              /\ ~users'[payments[q].userId].enabled
              /\ payments'[q].markedSuspicious
              /\ payments[q].userId \in Reported(last')
       /\ \A q \in PaymentIds : ~ToSweep(payments'[q], users', now)]_vars

\* ledger q holds an obligation that is overdue now
HasOverdue(q) ==
  \E i \in DOMAIN payments[q].installments : Overdue(payments[q].installments[i], now)

\* C13: a sweep flags a ledger, and marks its owner, only when the ledger holds
\* one obligation that is itself undecided and itself due before now.
C13_FlagsOnlyOverdue ==
  [][SweepRuns =>
       /\ \A q \in Ledgers :
            (~payments[q].markedSuspicious /\ payments'[q].markedSuspicious) => HasOverdue(q)
       /\ \A u \in Users :
            BecomesSuspicious(u) =>
              \E q \in Ledgers : payments[q].userId = u /\ HasOverdue(q)]_vars

\* the state a sweep run leaves, and what a second run does from there
SecondRun(first, populated) ==
  CheckOverdue(first.users, first.payments, now, populated)

\* C14: from every reachable state, a second sweep run that follows a first one
\* with nothing in between reports no account and changes no document.
C14_SweepIdempotent ==
  \A p1 \in BOOLEAN, p2 \in BOOLEAN :
    LET first == CheckOverdue(users, payments, now, p1)
        second == SecondRun(first, p2)
    IN /\ second.found = <<>>
       /\ second.users = first.users
       /\ second.payments = first.payments

\* C14 for one entry point run twice
C14_SameEntryPoint ==
  \A p \in BOOLEAN :
    LET first == CheckOverdue(users, payments, now, p)
    IN SecondRun(first, p).found = <<>>

\* C15: the accounts a sweep run reports are exactly those it newly marked;
\* each was not suspicious before the run, an account already suspicious is
\* neither modified nor reported, and no account is reported twice.
C15_ReportsNewlyMarked ==
  [][SweepRuns =>
       /\ Reported(last') = {u \in Users : BecomesSuspicious(u)}
       /\ \A u \in Reported(last') : ~users[u].isSuspicious
       /\ \A u \in Users : users[u].isSuspicious =>
            users'[u] = users[u] /\ u \notin Reported(last')
       /\ \A j, k \in DOMAIN last'.found :
            last'.found[j].userId = last'.found[k].userId => j = k]_vars

\* ------------------- SpecUserConc: requests that race on one User document
\* save() of a User loaded as snap and changed in memory to mem, when the
\* collection now holds db: only the paths modified since the load are $set
UserSaveDelta(db, snap, mem) ==
  [f \in DOMAIN db |-> IF mem[f] # snap[f] THEN mem[f] ELSE db[f]]

\* User.findById of request r in manageInstallments or toggleSuspicionStatus
LoadUser(r, u, op, enabled, isSuspicious) ==
  /\ reqs[r].pc = "idle"
  /\ reqs' = [reqs EXCEPT ![r] =
                [pc |-> "read", op |-> op, u |-> u, enabled |-> enabled,
                 isSuspicious |-> isSuspicious, snap |-> users[u]]]
  /\ UNCHANGED <<users, enrolledCount, payments, now, last, run>>

loadManageInstallments(r, u, enabled) == LoadUser(r, u, "manageInstallments", enabled, FALSE)

loadToggleSuspicionStatus(r, u, b) == LoadUser(r, u, "toggleSuspicionStatus", "undefined", b)

\* the rest of the handler of request r: it changes the User it loaded and
\* saves it.  stale tells that the account was marked suspicious between the
\* load and the save of this request
finishUser(r) ==
  /\ reqs[r].pc = "read"
  /\ reqs[r].op \in {"manageInstallments", "toggleSuspicionStatus"}
  /\ LET rq == reqs[r]
         out == IF rq.op = "manageInstallments"
                THEN ManageInstallments(rq.snap, rq.enabled, FALSE, <<>>)
                ELSE ToggleSuspicionStatus(rq.snap, rq.isSuspicious)
     IN /\ users' = [users EXCEPT ![rq.u] = UserSaveDelta(users[rq.u], rq.snap, out.user)]
        /\ reqs' = [reqs EXCEPT ![r] =
                      [rq EXCEPT !.pc = "done"] @@
                      [resp |-> out.resp,
                       stale |-> users[rq.u].isSuspicious /\ ~rq.snap.isSuspicious]]
  /\ UNCHANGED <<enrolledCount, payments, now, last, run>>

\* Payment.find(...).populate(...) of a sweep: it loads the matched ledgers
\* and their owners
loadCheckOverdue(r, populated) ==
  /\ reqs[r].pc = "idle"
  /\ reqs' = [reqs EXCEPT ![r] =
                [pc |-> "read", op |-> "checkOverduePayments", populated |-> populated,
                 snapUsers |-> users, snapPayments |-> payments]]
  /\ UNCHANGED <<users, enrolledCount, payments, now, last, run>>

\* the loop of the sweep on what it loaded, and its saves.  A fully populated
\* owner is saved with the paths the loop changed; an owner loaded with name
\* and email only has both paths set by the loop and so both are written
finishCheckOverdue(r) ==
  /\ reqs[r].pc = "read"
  /\ reqs[r].op = "checkOverduePayments"
  /\ LET rq == reqs[r]
         res == CheckOverdue(rq.snapUsers, rq.snapPayments, now, rq.populated)
         marked == {res.found[k].userId : k \in DOMAIN res.found}
         flagged == {res.found[k].paymentId : k \in DOMAIN res.found}
     IN /\ users' = [u \in Users |->
                       IF u \in marked /\ users[u].exists
                       THEN IF rq.populated
                            THEN UserSaveDelta(users[u], rq.snapUsers[u], res.users[u])
                            ELSE [users[u] EXCEPT !.isSuspicious = TRUE, !.enabled = FALSE]
                       ELSE users[u]]
        /\ payments' = [q \in PaymentIds |->
                          IF q \in flagged /\ payments[q] # NoPayment
                          THEN LET mem == [rq.snapPayments[q] EXCEPT !.markedSuspicious = TRUE]
                               IN SaveDelta(payments[q], rq.snapPayments[q], mem, PreSave(mem))
                          ELSE payments[q]]
        /\ reqs' = [reqs EXCEPT ![r] =
                      [rq EXCEPT !.pc = "done"] @@
                      [resp |-> [Resp("checkOverduePayments", 200, MsgOK) EXCEPT !.found = res.found],
                       stale |-> FALSE]]
  /\ UNCHANGED <<enrolledCount, now, last, run>>

\* One account; it gets installments enabled and creates ledgers while no
\* request is in flight; admin requests and sweeps interleave their load and
\* their save.
InitUserConc ==
  /\ users = [u \in Users |-> [exists |-> TRUE, isSuspicious |-> FALSE, enabled |-> FALSE,
                               splits |-> <<>>, enrolledServices |-> {}]]
  /\ enrolledCount = [s \in Services |-> 0]
  /\ payments = [q \in PaymentIds |-> NoPayment]
  /\ now = 0
  /\ last = Resp("init", 0, MsgOK)
  /\ reqs = [r \in ReqIds |-> Idle]
  /\ run = [ids |-> {1}, observe |-> FALSE, audit |-> FALSE]

NextUserConc ==
  \/ Quiet /\ \E u \in Users, ref \in Refs : createPayment(u, "s1", ref, "installment")
  \/ Quiet /\ \E u \in Users : manageInstallments(u, "true", TRUE, ShortTemplate)
  \/ Quiet /\ Tick
  \/ \E r \in ReqIds, u \in Users, e \in EnabledArgs \ {"undefined"} :
       loadManageInstallments(r, u, e)
  \/ \E r \in ReqIds, u \in Users, b \in BOOLEAN : loadToggleSuspicionStatus(r, u, b)
  \/ \E r \in ReqIds, populated \in BOOLEAN : loadCheckOverdue(r, populated)
  \/ \E r \in ReqIds : finishUser(r)
  \/ \E r \in ReqIds : finishCheckOverdue(r)
  \/ \E r \in ReqIds : release(r)

SpecUserConc == InitUserConc /\ [][NextUserConc]_vars

\* C16: when manageInstallments re-enables installments while the account is
\* being marked suspicious, the re-enable computed on the account as it was
\* read before the suspicion was written does not leave the account
\* suspicious with installments enabled.
C16_NoStaleReenable ==
  \A r \in Done :
    (/\ InFlight = {}
     /\ reqs[r].op = "manageInstallments"
     /\ reqs[r].enabled = "true"
     /\ reqs[r].stale)
    => ~(users[reqs[r].u].isSuspicious /\ users[reqs[r].u].enabled)


\* C17: clearing the suspicious flag leaves installmentSettings.enabled as it
\* was, on every code path that clears the flag: the admin toggle and the
\* Payment static updateUserSuspicion.
C17_ClearKeepsEnabled ==
  \A u \in Users :
    users[u].exists =>
      /\ ToggleSuspicionStatus(users[u], FALSE).user.enabled = users[u].enabled
      /\ UpdateUserSuspicion(users[u], FALSE).enabled = users[u].enabled


\* the percentages of the obligations of ledger q
LedgerPercentages(q) ==
  [i \in DOMAIN payments[q].installments |-> payments[q].installments[i].percentage]

\* C18: the percentages of the obligations of every installment ledger sum to
\* exactly 100 and each lies in 1..100, whatever template the account held
\* when the ledger was created (set by either admin endpoint, or the default).
C18_PercentagesTotal100 ==
  \A q \in InstallmentLedgers :
    /\ SumSeq(LedgerPercentages(q)) = 100
    /\ \A i \in DOMAIN LedgerPercentages(q) : LedgerPercentages(q)[i] \in 1..100

\* a ledger created from a template an admin has set
C18_Witness ==
  \E q \in InstallmentLedgers : LedgerPercentages(q) = <<50, 50>>


\* the answers that reject a template
InvalidSplit == {MsgSplitTotal, MsgSplitsTotal, MsgTwoSplits}

\* percentages that make a template: they sum to 100, at least two of them
TemplateOK(pcts) == SumSeq(pcts) = 100 /\ Len(pcts) >= 2

\* C19: each admin operation that sets a template answers InvalidSplit and
\* leaves the account as it was, unless the percentages sum to 100 and there
\* are at least two entries; a single entry of 100 is rejected.
C19_InvalidSplitRejected ==
  \A u \in Users :
    users[u].exists =>
      /\ \A e \in EnabledArgs, sp \in SplitArgs :
           ~TemplateOK(Percentages(sp)) =>
             LET out == ManageInstallments(users[u], e, TRUE, sp)
             IN out.resp.msg \in InvalidSplit /\ out.user = users[u]
      /\ \A pc \in PctArgs :
           ~TemplateOK(pc) =>
             LET out == SetInstallmentSplits(users[u], pc)
             IN out.resp.msg \in InvalidSplit /\ out.user = users[u]


\* doc is a ledger of Scenario A: installment mode, price 1000, created from
\* the default template, 30% due at once and 70% due 30 days later
ScenarioA(doc) ==
  /\ doc # NoPayment
  /\ doc.paymentType = "installment"
  /\ doc.amount = 1000 * Cents
  /\ Len(doc.installments) = 2
  /\ doc.installments[1].percentage = 30
  /\ doc.installments[2].percentage = 70
  /\ doc.installments[2].dueDate = doc.installments[1].dueDate + 30

\* C20: Scenario A.  A ledger created for price 1000 with the default template
\* has obligations of 300 and 700; approving obligation 1 leaves amountPaid =
\* 300 and paymentStatus partial; approving obligation 2 once it is submitted
\* leaves amountPaid = 1000, paymentStatus approved and serviceStatus active.
C20_ScenarioA ==
  [][\A q \in PaymentIds :
       LET old == payments[q]
           new == payments'[q]
       IN /\ (old = NoPayment /\ ScenarioA(new)) =>
               /\ new.installments[1].amount = 300 * Cents
               /\ new.installments[2].amount = 700 * Cents
          /\ (/\ ScenarioA(old) /\ ScenarioA(new)
              /\ old.installments[1].status = "submitted"
              /\ old.installments[2].status = "pending"
              /\ new.installments[1].status = "paid"
              /\ new.installments[2].status = "pending") =>
               /\ new.amountPaid = 300 * Cents
               /\ new.paymentStatus = "partial"
          /\ (/\ ScenarioA(old) /\ ScenarioA(new)
              /\ old.installments[1].status = "paid"
              /\ old.installments[2].status = "submitted"
              /\ ~old.isServiceCompleted
              /\ new.installments[1].status = "paid"
              /\ new.installments[2].status = "paid") =>
               /\ new.amountPaid = 1000 * Cents
               /\ new.paymentStatus = "approved"
               /\ new.serviceStatus = "active"]_vars

\* the end of Scenario A: obligation 2 was submitted with its own reference
\* and both obligations are paid
C20_Witness ==
  \E q \in Ledgers :
    /\ ScenarioA(payments[q])
    /\ payments[q].installments[1].status = "paid"
    /\ payments[q].installments[2].status = "paid"
    /\ payments[q].installments[2].transactionId = "t2"
    /\ payments[q].amountPaid = 1000 * Cents
    /\ payments[q].paymentStatus = "approved"
    /\ payments[q].serviceStatus = "active"


\* ledger q is a full-mode ledger before and after the step
FullStep(q) ==
  /\ payments[q] # NoPayment /\ payments'[q] # NoPayment
  /\ payments[q].paymentType = "full"

\* C21: on a full-mode ledger approved and rejected are terminal: no step
\* changes a paymentStatus that is approved or rejected, and rejected is
\* entered only from pending.
C21_TerminalStatus ==
  [][\A q \in PaymentIds :
       FullStep(q) =>
         /\ payments[q].paymentStatus \in {"approved", "rejected"} =>
              payments'[q].paymentStatus = payments[q].paymentStatus
         /\ (payments'[q].paymentStatus = "rejected" /\ payments[q].paymentStatus # "rejected") =>
              payments[q].paymentStatus = "pending"]_vars


\* C22: no installment ledger is stored with paymentStatus rejected, whatever
\* the admin decides, a reject sent without installmentNumber included.
C22_InstallmentNeverRejected ==
  \A q \in InstallmentLedgers : payments[q].paymentStatus # "rejected"

\* an installment ledger the admin rejected as a whole: the full-payment
\* branch marked its service expired and the hook derived its paymentStatus
C22_Witness ==
  \E q \in InstallmentLedgers :
    /\ payments[q].serviceStatus = "expired"
    /\ payments[q].startDate = NoDate
    /\ payments[q].endDate = NoDate


\* C23: in every stored ledger whose completion flag is set, serviceStatus is
\* completed, whatever ran after the completion (approvals, rejections,
\* activation, date updates, sweeps) and whatever the paymentStatus is.
C23_CompletedStays ==
  \A q \in Ledgers : payments[q].isServiceCompleted => payments[q].serviceStatus = "completed"

\* a completed full-mode ledger that was also rejected: the reject sets
\* serviceStatus to expired and the hook puts completed back
C23_Witness ==
  \E q \in FullLedgers :
    /\ payments[q].isServiceCompleted
    /\ payments[q].serviceStatus = "completed"
    /\ payments[q].startDate # NoDate
    /\ payments[q].paymentStatus = "rejected"


\* C24: the completion flag of a ledger is set only while its paymentStatus is
\* approved or partial; on a pending or rejected ledger no completion entry
\* point changes the flag or serviceStatus.
C24_CompleteNeedsPayment ==
  [][\A q \in PaymentIds :
       (/\ payments[q] # NoPayment /\ payments'[q] # NoPayment
        /\ ~payments[q].isServiceCompleted
        /\ payments'[q].isServiceCompleted)
       => payments[q].paymentStatus \in {"approved", "partial"}]_vars


\* C25: on every full-mode ledger amountPaid equals the price exactly when
\* paymentStatus is approved, for every price a service may have, 0 included.
C25_PaidIffApproved ==
  \A q \in FullLedgers :
    (payments[q].amountPaid = payments[q].amount) <=> (payments[q].paymentStatus = "approved")

\* C25 for the ledgers of a service with a price above 0
C25_PaidIffApprovedPriced ==
  \A q \in FullLedgers :
    payments[q].amount > 0 =>
      ((payments[q].amountPaid = payments[q].amount) <=> (payments[q].paymentStatus = "approved"))


\* the service of ledger doc is activated: active unless completed, both
\* dates set, the end a service duration after the start
Activated(doc) ==
  /\ doc.isServiceCompleted \/ doc.serviceStatus = "active"
  /\ doc.startDate # NoDate
  /\ doc.endDate # NoDate
  /\ doc.endDate = EndDate(doc.startDate, doc.serviceId)

AllPaid(doc) == \A i \in DOMAIN doc.installments : doc.installments[i].status = "paid"

\* the step makes ledger q fully paid: a full-mode ledger becomes approved, or
\* the last unpaid obligation of an installment ledger becomes paid
BecomesFullyPaid(q) ==
  /\ payments[q] # NoPayment /\ payments'[q] # NoPayment
  /\ IF payments[q].paymentType = "full"
     THEN payments[q].paymentStatus # "approved" /\ payments'[q].paymentStatus = "approved"
     ELSE ~AllPaid(payments[q]) /\ AllPaid(payments'[q])

\* C26: every decision that makes a ledger fully paid leaves its service
\* activated, whatever the ledger went through before, a full-mode ledger
\* approved, rejected and approved again included.
C26_FullyPaidActivates ==
  [][\A q \in PaymentIds : BecomesFullyPaid(q) => Activated(payments'[q])]_vars

\* C26 for installment ledgers alone
C26_InstallmentActivates ==
  [][\A q \in PaymentIds :
       (BecomesFullyPaid(q) /\ payments[q].paymentType = "installment")
       => Activated(payments'[q])]_vars


\* ------------- SpecNotify: updatePaymentStatus with its notification e-mails
\* a sendEmail that lets the transport error escape to its caller
SendEmailThrows(delivered) == [result |-> delivered, logged |-> FALSE, thrown |-> ~delivered]

\* EmailService.sendEmail when transporter.sendMail settles: delivered, or an
\* error that is caught, logged with console.error and answered with false
SendEmail(delivered) == [result |-> delivered, logged |-> ~delivered, thrown |-> FALSE]

\* the awaits of the handler after payment.save()
Mailing == {"sendPaymentStatusEmail", "sendServiceEnrollmentEmail"}

\* updatePaymentStatus of request r up to and including payment.save().  An
\* approval goes on to await sendPaymentStatusEmail; enroll tells whether
\* sendServiceEnrollmentEmail follows; any other outcome answers at once
saveDecision(r, q, status, n) ==
  /\ reqs[r].pc = "idle"
  /\ LET out == UpdatePaymentStatus(payments[q], status, n, now)
         doc == Stored(out)
     IN /\ payments' = [payments EXCEPT ![q] = doc]
        /\ reqs' = [reqs EXCEPT ![r] =
                      IF out.save /\ status = "approved"
                      THEN [pc |-> "sendPaymentStatusEmail", q |-> q, saved |-> TRUE, logged |-> 0,
                            enroll |-> \/ doc.paymentType = "full"
                                       \/ doc.serviceStatus = "active",
                            resp |-> out.resp]
                      ELSE [pc |-> "done", q |-> q, saved |-> out.save, logged |-> 0,
                            enroll |-> FALSE, resp |-> out.resp]]
  /\ UNCHANGED <<users, enrolledCount, now, last, run>>

\* transporter.sendMail settles for request r and the handler runs on to its
\* next await or to res.json; an error thrown into the handler ends in its
\* catch block with a 500
sendMailSettles(r, delivered) ==
  /\ reqs[r].pc \in Mailing
  /\ LET rq == reqs[r]
         m == SendEmail(delivered)
         seen == [rq EXCEPT !.logged = IF m.logged THEN @ + 1 ELSE @]
     IN reqs' = [reqs EXCEPT ![r] =
                   IF m.thrown
                   THEN [seen EXCEPT !.pc = "done",
                                     !.resp = Resp("updatePaymentStatus", 500, MsgServerError)]
                   ELSE IF rq.pc = "sendPaymentStatusEmail" /\ rq.enroll
                   THEN [seen EXCEPT !.pc = "sendServiceEnrollmentEmail"]
                   ELSE [seen EXCEPT !.pc = "done"]]
  /\ UNCHANGED <<users, enrolledCount, payments, now, last, run>>

InitNotify ==
  /\ users = [u \in Users |-> [exists |-> TRUE, isSuspicious |-> FALSE, enabled |-> TRUE,
                               splits |-> <<>>, enrolledServices |-> {}]]
  /\ enrolledCount = [s \in Services |-> 0]
  /\ payments = [q \in PaymentIds |-> NoPayment]
  /\ now = 0
  /\ last = Resp("init", 0, MsgOK)
  /\ reqs = [r \in ReqIds |-> Idle]
  /\ run = [ids |-> {1}, observe |-> FALSE, audit |-> FALSE]

NextNotify ==
  \/ Quiet /\ \E u \in Users, ty \in PaymentTypes : createPayment(u, "s1", "t1", ty)
  \/ Quiet /\ \E q \in run.ids, n \in NumberArgs \ {Undefined} :
                payInstallment(q, payments[q].userId, n, "t2")
  \/ \E r \in ReqIds, q \in Ledgers \cap run.ids, st \in {"approved", "rejected"},
        n \in NumberArgs : saveDecision(r, q, st, n)
  \/ \E r \in ReqIds, delivered \in BOOLEAN : sendMailSettles(r, delivered)
  \/ \E r \in ReqIds : release(r)

SpecNotify == InitNotify /\ [][NextNotify]_vars


\* an e-mail of request r fails in this step
MailFails(r) ==
  /\ reqs[r].pc \in Mailing
  /\ reqs'[r].pc # reqs[r].pc
  /\ reqs'[r].logged > reqs[r].logged

\* C27: when a notification e-mail of an approval fails, the failure is
\* logged, the ledger stays as the decision stored it, the handler goes on,
\* and the request that ends after a failed e-mail answers success.
C27_MailFailureHarmless ==
  [][\A r \in ReqIds :
       /\ MailFails(r) =>
            /\ payments' = payments
            /\ reqs'[r].pc \in Mailing \cup {"done"}
       /\ (reqs[r].pc \in Mailing /\ reqs'[r].pc = "done") =>
            /\ reqs'[r].resp.code = 200
            /\ payments' = payments]_vars

\* an approval that made obligation 1 paid has answered although its e-mail
\* failed
C27_Witness ==
  \E r \in Done :
    /\ reqs[r].logged > 0
    /\ reqs[r].saved
    /\ reqs[r].resp.code = 200
    /\ payments[reqs[r].q] # NoPayment
    /\ payments[reqs[r].q].paymentStatus \in {"partial", "approved"}


\* SpecNotify with the steps the server takes on its own being taken: an
\* answer that is ready is sent.  Nothing is assumed of the mail transport.
SpecNotifyFair == SpecNotify /\ \A r \in ReqIds : WF_vars(release(r))

\* SpecNotifyFair with a mail transport that always settles
SpecNotifyAnswered ==
  SpecNotifyFair /\ \A r \in ReqIds : WF_vars(\E delivered \in BOOLEAN : sendMailSettles(r, delivered))

\* C28: a decision that has started returns its result to the caller, also
\* when the mail transport never answers.
C28_DecideReturns ==
  \A r \in ReqIds : (reqs[r].pc \in Mailing) ~> (reqs[r].pc = "done")


\* ------------- SpecDeleteConc: account deletion races with createPayment
\* deleteUser and deleteAccount of request r up to and including
\* Payment.deleteMany({ userId })
deleteManyPayments(r, u) ==
  /\ reqs[r].pc = "idle"
  /\ IF users[u].exists
     THEN /\ payments' = [q \in PaymentIds |->
                            IF payments[q] # NoPayment /\ payments[q].userId = u
                            THEN NoPayment ELSE payments[q]]
          /\ reqs' = [reqs EXCEPT ![r] = [pc |-> "read", op |-> "deleteUser", u |-> u]]
     ELSE /\ UNCHANGED payments
          /\ reqs' = [reqs EXCEPT ![r] =
                        [pc |-> "done", op |-> "deleteUser", u |-> u,
                         resp |-> Resp("deleteUser", 404, MsgNoUser)]]
  /\ UNCHANGED <<users, enrolledCount, now, last, run>>

\* user.deleteOne() of request r, and its answer
deleteOneUser(r) ==
  /\ reqs[r].pc = "read"
  /\ reqs[r].op = "deleteUser"
  /\ users' = [users EXCEPT ![reqs[r].u] = NoUser]
  /\ reqs' = [reqs EXCEPT ![r] =
                [@ EXCEPT !.pc = "done"] @@ [resp |-> Resp("deleteUser", 200, MsgOK)]]
  /\ UNCHANGED <<enrolledCount, payments, now, last, run>>

NextDeleteConc ==
  \/ \E r \in ReqIds, u \in Users, s \in {"s1", "sOff"}, ref \in RawRefs, ty \in PaymentTypes :
       loadCreatePayment(r, u, s, ref, ty)
  \/ \E r \in ReqIds : commitCreatePayment(r)
  \/ \E r \in ReqIds, u \in Users : deleteManyPayments(r, u)
  \/ \E r \in ReqIds : deleteOneUser(r)
  \/ \E r \in ReqIds : release(r)

SpecDeleteConc == InitCreateConc /\ [][NextDeleteConc]_vars

\* C29: the owner of every ledger exists, in every state, whatever way the
\* deletion of an account interleaves with a createPayment of that account.
C29_OwnersExist ==
  \A q \in Ledgers :
    payments[q].userId \in Users /\ users[payments[q].userId].exists


\* ledger doc as createPayment stores an installment ledger for the account
\* user: obligation 1 submitted under the ledger's reference, the others
\* pending without one, numbered in template order, nothing paid
FreshInstallmentLedger(doc, user) ==
  LET insts == doc.installments IN
  /\ Len(insts) = Len(SplitsOf(user))
  /\ Len(insts) >= 1
  /\ insts[1].status = "submitted"
  /\ insts[1].transactionId = doc.transactionId
  /\ \A i \in DOMAIN insts :
       /\ insts[i].installmentNumber = i
       /\ insts[i].percentage = SplitsOf(user)[i].percentage
       /\ i > 1 => (insts[i].status = "pending" /\ insts[i].transactionId = Null)
  /\ doc.amountPaid = 0
  /\ doc.amountDue = doc.amount
  /\ doc.paymentStatus = "pending"

FirstApproval(q) ==
  /\ payments[q] # NoPayment /\ payments'[q] # NoPayment
  /\ payments[q].paymentType = "installment"
  /\ payments[q].startDate = NoDate
  /\ payments[q].installments[1].status # "paid"
  /\ payments'[q].installments[1].status = "paid"

\* C31: approving obligation 1 of a ledger without startDate activates the
\* service in full: afterwards both dates are set, the end a service duration
\* after the start, and serviceStatus is active.
C31_FirstApprovalActivates ==
  [][\A q \in PaymentIds : FirstApproval(q) => Activated(payments'[q])]_vars

\* C31, the consequence: an active service has both of its dates
C31_ActiveHasDates ==
  \A q \in Ledgers :
    payments[q].serviceStatus = "active" =>
      (payments[q].startDate # NoDate /\ payments[q].endDate # NoDate)


\* C32: the approval that makes all obligations paid, on a ledger whose
\* service the approval of obligation 1 had already activated, keeps the
\* startDate of that first activation.
C32_StartDateKept ==
  [][\A q \in PaymentIds :
       (/\ BecomesFullyPaid(q)
        /\ payments[q].paymentType = "installment"
        /\ payments[q].installments[1].status = "paid"
        /\ payments[q].serviceStatus = "active"
        /\ payments[q].startDate # NoDate)
       => payments'[q].startDate = payments[q].startDate]_vars


\* ---------------------------------------------- submission of an obligation
\* the ordinals a payer may send: those of the ledger and one it does not hold
SubmitOrdinals == 1..3
SubmitRefs == {"t2", "t3"}

\* ------------------- SpecAudit: one ledger with its obligation stamps kept
\* An account that may pay in installments creates a ledger; the payer, a
\* stranger and the administrator send their requests one after the other, and
\* the run keeps the stamps the handlers write on the obligations.
InitAudit ==
  /\ users \in {[u \in Users |-> [exists |-> TRUE, isSuspicious |-> FALSE, enabled |-> TRUE,
                                    splits |-> sp, enrolledServices |-> {}]] : sp \in Templates}
  /\ enrolledCount = [s \in Services |-> 0]
  /\ payments = [q \in PaymentIds |-> NoPayment]
  /\ now = 0
  /\ last = Resp("init", 0, MsgOK)
  /\ reqs = <<>>
  /\ run = [ids |-> {1}, observe |-> FALSE, audit |-> TRUE]

NextAudit ==
  \/ \E u \in Users, s \in {"s1", "sOff"}, ty \in PaymentTypes : createPayment(u, s, "t1", ty)
  \/ \E q \in run.ids, a \in Users \cup {Stranger}, n \in SubmitOrdinals, ref \in SubmitRefs :
       payInstallment(q, a, n, ref)
  \/ \E q \in run.ids, st \in StatusArgs, n \in NumberArgs : updatePaymentStatus(q, st, n)
  \/ Tick

SpecAudit == InitAudit /\ [][NextAudit]_vars

\* ---------------------------------------------- properties under SpecAudit
\* payInstallment refuses ordinal n on ledger doc
SubmitRefused(doc, n) ==
  LET i == FindInstallment(doc, n) IN
  \/ i = 0
  \/ doc.installments[i].status = "paid"
  \/ n = 1 /\ doc.installments[i].status = "submitted"

\* C33: the payer's submission of an obligation of an installment ledger fails
\* and leaves the ledger as it is when the ordinal is absent (not found), when
\* the obligation is paid (already paid) or when it is the first obligation and
\* already submitted; in every other case the obligation becomes submitted with
\* the submission time and the given reference, no other obligation changes and
\* amountPaid, amountDue and paymentStatus stay as they were.
C33_SubmitObligation ==
  \A q \in InstallmentLedgers, n \in SubmitOrdinals, ref \in SubmitRefs :
    LET doc == payments[q]
        out == PayInstallment(doc, doc.userId, n, ref, now)
        after == Stored(out)
        i == FindInstallment(doc, n)
    IN IF SubmitRefused(doc, n)
       THEN /\ ~out.save
            /\ after = doc
            /\ out.resp.code \in {400, 404}
            /\ i = 0 => out.resp.msg = MsgNoInstallment
            /\ (i # 0 /\ doc.installments[i].status = "paid") => out.resp.msg = MsgAlreadyPaid
            /\ (i # 0 /\ doc.installments[i].status = "submitted") => out.resp.msg = MsgFirstWaiting
       ELSE /\ out.save
            /\ out.resp.code = 200
            /\ after.installments[i].status = "submitted"
            /\ after.installments[i].submittedAt = now
            /\ after.installments[i].transactionId = ref
            /\ \A j \in DOMAIN doc.installments : j # i => after.installments[j] = doc.installments[j]
            /\ DOMAIN after.installments = DOMAIN doc.installments
            /\ after.amountPaid = doc.amountPaid
            /\ after.amountDue = doc.amountDue
            /\ after.paymentStatus = doc.paymentStatus

\* a later obligation submitted by the payer, next to a paid first obligation
C33_Witness ==
  \E q \in InstallmentLedgers :
    /\ Len(payments[q].installments) = 2
    /\ payments[q].installments[1].status = "paid"
    /\ payments[q].installments[2].status = "submitted"
    /\ payments[q].installments[2].transactionId = "t2"
    /\ payments[q].installments[2].submittedAt # NoDate
    /\ payments[q].paymentStatus = "partial"

\* ------------------------------------------- rejection and resubmission
\* the step rejects obligation i of ledger q, which was submitted
RejectsSubmitted(q, i) ==
  /\ payments[q] # NoPayment /\ payments'[q] # NoPayment
  /\ i \in DOMAIN payments[q].installments
  /\ payments[q].installments[i].status = "submitted"
  /\ payments'[q].installments[i].status = "rejected"

\* rejecting a submitted obligation records when and by whom it was rejected
\* and clears its reference
C34_RejectClearsReference ==
  [][\A q \in PaymentIds, i \in SubmitOrdinals :
       RejectsSubmitted(q, i) =>
         /\ payments'[q].installments[i].rejectedAt = now
         /\ payments'[q].installments[i].rejectedBy = Admin
         /\ payments'[q].installments[i].transactionId = Null]_vars

\* the payer can resubmit every rejected obligation, the first one included:
\* it returns to submitted with the new reference
C34_ResubmitSucceeds ==
  \A q \in InstallmentLedgers, ref \in SubmitRefs :
    \A i \in DOMAIN payments[q].installments :
    payments[q].installments[i].status = "rejected" =>
      LET doc == payments[q]
          out == PayInstallment(doc, doc.userId, doc.installments[i].installmentNumber, ref, now)
      IN /\ out.save
         /\ Stored(out).installments[i].status = "submitted"
         /\ Stored(out).installments[i].transactionId = ref

\* C34: a rejected obligation stays rejected until the payer resubmits it: its
\* status changes only to submitted, in a step that stores a reference of the
\* payer on it.
C34_StaysRejected ==
  [][\A q \in PaymentIds :
       (payments[q] # NoPayment /\ payments'[q] # NoPayment) =>
         \A i \in DOMAIN payments[q].installments :
           payments[q].installments[i].status = "rejected" =>
             \/ payments'[q].installments[i].status = "rejected"
             \/ /\ payments'[q].installments[i].status = "submitted"
                /\ payments'[q].installments[i].transactionId \in SubmitRefs]_vars

\* ------------------------------------------- what a sweep writes on a ledger
\* ledger document after is ledger document before, up to the suspicious flag
SameButFlag(before, after) ==
  IF before = NoPayment THEN after = NoPayment
  ELSE /\ after # NoPayment
       /\ after = [before EXCEPT !.markedSuspicious = after.markedSuspicious]

\* C35: a sweep, run from the admin controller or from the payment routes,
\* leaves the status of every obligation as it was; on a ledger it changes at
\* most the ledger-level suspicious flag.
C35_SweepKeepsObligations ==
  [][SweepRuns =>
       \A q \in PaymentIds :
         /\ SameButFlag(payments[q], payments'[q])
         /\ payments[q] # NoPayment =>
              \A i \in DOMAIN payments[q].installments :
                payments'[q].installments[i].status = payments[q].installments[i].status]_vars

\* a sweep has just flagged a ledger whose overdue obligation is still pending
C35_Witness ==
  /\ last.op \in {"checkOverduePayments", "checkOverdueRoute"}
  /\ \E k \in DOMAIN last.found :
       LET q == last.found[k].paymentId IN
       /\ payments[q] # NoPayment
       /\ payments[q].markedSuspicious
       /\ \E i \in DOMAIN payments[q].installments :
            /\ payments[q].installments[i].status = "pending"
            /\ payments[q].installments[i].dueDate < now

\* ------------------------------------------ SpecPlan: the plan of a purchase
\* The price of the service is any whole number up to MaxPrice and the account
\* holds a valid template; the payer asks for the plan (choosePaymentType) and
\* creates the ledger (createPayment).
MaxPrice == 5
PlanPrices == 0..MaxPrice
PlanTemplates == Templates \cup {<<Split(33, 0), Split(33, 15), Split(34, 30)>>}

MsgNotEnabledContact ==
  "Installment payments are not enabled for your account. Please contact admin."

\* installmentDetails of choosePaymentType
InstallmentDetails(price, splits) ==
  [i \in 1..Len(splits) |->
     [installmentNumber |-> i,
      amount |-> (price * Cents * splits[i].percentage) \div 100,
      percentage |-> splits[i].percentage,
      dueDays |-> splits[i].dueDays]]

\* the answer of choosePaymentType; found carries installmentDetails
ChoosePaymentType(user, price, ptype) ==
  LET op == "choosePaymentType" IN
  IF ~user.exists THEN Resp(op, 404, MsgNoUser)
  ELSE IF ptype = "installment" /\ ~user.enabled THEN Resp(op, 400, MsgNotEnabledContact)
  ELSE [Resp(op, 200, MsgOK) EXCEPT
          !.found = IF ptype = "installment"
                    THEN InstallmentDetails(price, SplitsOf(user)) ELSE <<>>,
          !.req = [price |-> price, paymentType |-> ptype]]

choosePaymentType(u, price, ptype) ==
  /\ Answer(ChoosePaymentType(users[u], price, ptype))
  /\ UNCHANGED <<users, enrolledCount, payments, now, reqs, run>>

\* createPayment of an installment ledger for service s1 priced at price
createPaymentAt(u, price, rawRef) ==
  LET r == CreateChecks(users, payments, u, "s1", rawRef, "installment") IN
  /\ Answer([r EXCEPT !.req = CreateReq(u, "s1", rawRef, "installment")])
  /\ IF r.code = 201
     THEN /\ FreeIds(payments) \cap run.ids # {}
          /\ enrolledCount["s1"] < MaxEnrolled
          /\ payments' = [payments EXCEPT ![NewId] =
                            PreSave(PaymentDataAt(u, "s1", Trim(rawRef), "installment",
                                                  users[u], now, price))]
          /\ users' = [users EXCEPT ![u].enrolledServices = @ \cup {NewId}]
          /\ enrolledCount' = [enrolledCount EXCEPT !["s1"] = @ + 1]
     ELSE UNCHANGED <<users, enrolledCount, payments>>
  /\ UNCHANGED <<now, reqs, run>>

InitPlan ==
  /\ users \in {[u \in Users |-> [exists |-> TRUE, isSuspicious |-> FALSE, enabled |-> e,
                                    splits |-> sp, enrolledServices |-> {}]] :
                  e \in BOOLEAN, sp \in PlanTemplates}
  /\ enrolledCount = [s \in Services |-> 0]
  /\ payments = [q \in PaymentIds |-> NoPayment]
  /\ now = 0
  /\ last = Resp("init", 0, MsgOK)
  /\ reqs = <<>>
  /\ run = [ids |-> {1}, observe |-> TRUE, audit |-> FALSE]

NextPlan ==
  \/ \E u \in Users, price \in PlanPrices, ty \in PaymentTypes : choosePaymentType(u, price, ty)
  \/ \E u \in Users, price \in PlanPrices : createPaymentAt(u, price, "t1")

SpecPlan == InitPlan /\ [][NextPlan]_vars

\* ------------------------------------------------ properties under SpecPlan
\* Math.round of an amount in hundredths: the nearest whole unit, halves up
RoundUnits(h) == ((h + Cents \div 2) \div Cents) * Cents

\* the amount round(price * percentage / 100) of a price held in hundredths
RoundedShare(amount, percentage) == RoundUnits((amount * percentage) \div 100)

\* the sum of the obligation amounts differs from the price by at most one
\* unit for each obligation but one
C36_SumNearPrice ==
  \A q \in InstallmentLedgers :
    LET d == SumSeq(Amounts(payments[q].installments)) - payments[q].amount
        n == Len(payments[q].installments)
    IN d <= (n - 1) * Cents /\ -d <= (n - 1) * Cents

\* C36: for every whole price and every valid template, the amount of each
\* obligation, stored on the ledger or offered by choosePaymentType, is
\* round(price * percentage / 100), a whole number of units.
C36_AmountsRounded ==
  /\ \A q \in InstallmentLedgers :
       \A i \in DOMAIN payments[q].installments :
         payments[q].installments[i].amount =
           RoundedShare(payments[q].amount, payments[q].installments[i].percentage)
  /\ last.op = "choosePaymentType" =>
       \A i \in DOMAIN last.found :
         last.found[i].amount = RoundedShare(last.req.price * Cents, last.found[i].percentage)

\* ------------------------------------------- activation needs a paid amount
\* C37: on an installment ledger the service is active, or has a start date,
\* only when at least one obligation is paid; in particular a decision
\* 'approved' sent without an obligation ordinal activates nothing while every
\* obligation is unpaid.
C37_ActiveNeedsPaid ==
  \A q \in InstallmentLedgers :
    (payments[q].serviceStatus = "active" \/ payments[q].startDate # NoDate)
      => PaidObligations(q) # {}

\* ------------------------------------------------ a ledger is flagged once
\* the ledgers through which the sweep that has just run marked an account
\* (the answer of a sweep stays in last while time passes: a step that runs a
\* sweep leaves the clock alone)
MarkedThrough(r) == {r.found[k].paymentId : k \in DOMAIN r.found}

\* C38: the suspicious flag of a ledger is never reset, and a sweep marks an
\* account only through ledgers that were not flagged and that it flags: one
\* ledger makes its owner suspicious at most once, also when the administrator
\* has cleared the account's suspicion and the ledger is still overdue.
C38_FlaggedOnce ==
  [][/\ \A q \in PaymentIds :
          (payments[q] # NoPayment /\ payments[q].markedSuspicious)
            => (payments'[q] # NoPayment /\ payments'[q].markedSuspicious)
     /\ (SweepRuns /\ now' = now) =>
          /\ \A q \in MarkedThrough(last') :
               /\ ~payments[q].markedSuspicious
               /\ payments'[q].markedSuspicious
          /\ \A u \in Users : BecomesSuspicious(u) =>
               \E q \in MarkedThrough(last') : payments[q].userId = u]_vars

\* the administrator has cleared the suspicion of an account whose flagged
\* ledger is still overdue, and the sweep that ran after that marked nobody
C38_Witness ==
  /\ last.op \in {"checkOverduePayments", "checkOverdueRoute"}
  /\ last.found = <<>>
  /\ \E q \in InstallmentLedgers :
       /\ payments[q].markedSuspicious
       /\ \E i \in DOMAIN payments[q].installments :
            /\ payments[q].installments[i].status = "pending"
            /\ payments[q].installments[i].dueDate < now
       /\ users[payments[q].userId].exists
       /\ ~users[payments[q].userId].isSuspicious
====
